---------------------------- MODULE Spec2Model ----------------------------
(***************************************************************************)
(* The error-propagating pipe of pipe_operator.h, namespace v3.            *)
(*                                                                         *)
(* An expression  init | f1 | f2 | ... | fn  is evaluated left to right,   *)
(* one application of v3::operator| per step.  A std::string is a sequence *)
(* of one-character strings, a std::expected<Payload, OpErrorType> is a    *)
(* record tagged by has_value.  Every variable is a function of the run:   *)
(* one run is one evaluation of the chain.                                 *)
(***************************************************************************)
EXTENDS Integers, Sequences, FiniteSets, TLC

\* Longest chain of steps explored.
MaxSteps == 3

VARIABLES
    steps,      \* the chain f1 .. fn, the names of the piped functions
    initial,    \* the left-most operand, a PayloadOrError
    state,      \* per run: "Running" while operator| applications remain, then "Done"
    i,          \* per run: number of operator| applications completed
    cur,        \* per run: the PayloadOrError the next operator| receives as ex
    res,        \* per run: the variable res of Payload_PipeTest
    log,        \* per run: the invocations of steps, in the order they happened
    drawn       \* per run: the rand_gen() % 2 outputs each invoked step consumed

vars == <<steps, initial, state, i, cur, res, log, drawn>>

-----------------------------------------------------------------------------
\* Strings

StartString == <<"S","t","a","r","t"," ","s","t","r","i","n","g"," ">>
ProcBy1 == <<" ","p","r","o","c"," ","b","y"," ","1",",">>
ProcBy2 == <<" ","p","r","o","c"," ","b","y"," ","2",",">>
ProcBy3 == <<" ","p","r","o","c"," ","b","y"," ","3",",">>

-----------------------------------------------------------------------------
\* Payload, OpErrorType, PayloadOrError

OpErrorType == {"kInvalidInput", "kOverflow", "kUnderflow"}

\* struct Payload { std::string fStr{}; int fVal{}; }
Payload(str, val) == [fStr |-> str, fVal |-> val]

\* std::expected holding a value
Success(p) == [has_value |-> TRUE, value |-> p]

\* std::expected constructed from std::unexpected{e}
Failure(e) == [has_value |-> FALSE, error |-> e]

\* The seed of Payload_PipeTest.
DemoSeed == Payload(StartString, 42)

\* Seed payloads explored.  fVal stays far from INT_MAX: a chain of MaxSteps
\* steps adds at most 3 per step, so ++fVal and fVal += 3 never overflow.
Seeds == {DemoSeed, Payload(<<"s","t","a","r","t">>, 0)}

InitialResults == {Success(p) : p \in Seeds} \cup {Failure(e) : e \in OpErrorType}

-----------------------------------------------------------------------------
\* The steps

StepNames == {"Payload_Proc_1", "Payload_Proc_2", "Payload_Proc_3"}

Payload_Proc_1(s) ==
    IF ~s.has_value THEN s
    ELSE Success(Payload(s.value.fStr \o ProcBy1, s.value.fVal + 1))

\* rnd is the sequence of rand_gen() % 2 outputs the call consumes: the
\* second is drawn only when the first is 0.
Payload_Proc_2(s, rnd) ==
    IF ~s.has_value THEN s
    ELSE IF rnd[1] = 1
         THEN Success(Payload(s.value.fStr \o ProcBy2, s.value.fVal + 1))
         ELSE Failure(IF rnd[2] = 1 THEN "kOverflow" ELSE "kUnderflow")

\* Payload_Proc_3 with ++s->fVal in place of s->fVal += 3.
Payload_Proc_3_Increment(s) ==
    IF ~s.has_value THEN s
    ELSE Success(Payload(s.value.fStr \o ProcBy3, s.value.fVal + 1))

Payload_Proc_3(s) ==
    IF ~s.has_value THEN s
    ELSE Success(Payload(s.value.fStr \o ProcBy3, s.value.fVal + 3))

\* The rand_gen() % 2 sequences a call f(s) may consume.
RandomDraws(f, s) ==
    IF f = "Payload_Proc_2" /\ s.has_value
    THEN {<<1>>, <<0, 0>>, <<0, 1>>}
    ELSE {<<>>}

\* std::invoke(f, s)
Invoke(f, s, rnd) ==
    CASE f = "Payload_Proc_1" -> Payload_Proc_1(s)
      [] f = "Payload_Proc_2" -> Payload_Proc_2(s, rnd)
      [] f = "Payload_Proc_3" -> Payload_Proc_3(s)

-----------------------------------------------------------------------------
\* v3::operator|

\* operator| without the test of ex: f is invoked with ex whatever it holds.
PipeOp_NoShortCircuit(ex, f, rnd) ==
    [calls |-> <<ex>>, ret |-> Invoke(f, ex, rnd)]

\* operator| that invokes f and then returns ex instead of f's result.
PipeOp_DropResult(ex, f, rnd) ==
    IF ex.has_value
    THEN [calls |-> <<Success(ex.value)>>, ret |-> ex]
    ELSE [calls |-> <<>>, ret |-> ex]

\* operator| that replaces the error it passes on by kInvalidInput.
PipeOp_Wrap(ex, f, rnd) ==
    IF ex.has_value
    THEN [calls |-> <<Success(ex.value)>>, ret |-> Invoke(f, Success(ex.value), rnd)]
    ELSE [calls |-> <<>>, ret |-> Failure("kInvalidInput")]

\* operator| that hands f a Payload whose string was already moved from.
PipeOp_MovedFrom(ex, f, rnd) ==
    IF ex.has_value
    THEN [calls |-> <<Success(Payload(<<>>, ex.value.fVal))>>,
          ret |-> Invoke(f, Success(Payload(<<>>, ex.value.fVal)), rnd)]
    ELSE [calls |-> <<>>, ret |-> ex]

\* ex ? std::invoke(f, *ex) : ex.  calls is the sequence of arguments f was
\* invoked with (none or one), ret the returned PayloadOrError.  *ex is a
\* Payload; f takes a PayloadOrError, so the argument is a success built
\* from that Payload.
PipeOp(ex, f, rnd) ==
    IF ex.has_value
    THEN [calls |-> <<Success(ex.value)>>, ret |-> Invoke(f, Success(ex.value), rnd)]
    ELSE [calls |-> <<>>, ret |-> ex]

\* The chain read as if | associated to the right.
NextStep_RightToLeft(r) == steps[Len(steps) - i[r]]

\* The right operand of the (i+1)-th operator| of the chain: | associates
\* to the left, so the operands are taken from left to right.
NextStep(r) == steps[i[r] + 1]

\* The effect of one operator| application with outcome o in run r.
Apply(r, o, rnd) ==
    /\ cur' = [cur EXCEPT ![r] = o.ret]
    /\ log' = [log EXCEPT ![r] = @ \o
                 [k \in 1..Len(o.calls) |->
                    [idx |-> i[r], f |-> NextStep(r), arg |-> o.calls[k], ret |-> o.ret]]]
    /\ drawn' = IF o.calls # <<>>
                THEN [drawn EXCEPT ![r] = @ @@ (i[r] :> rnd)]
                ELSE drawn
    /\ i' = [i EXCEPT ![r] = @ + 1]
    /\ UNCHANGED <<steps, initial, state, res>>

\* operator| that calls itself on its own operands and never returns.
Pipe_Recursive(r) ==
    /\ state[r] = "Running"
    /\ i[r] < Len(steps)
    /\ UNCHANGED vars

\* operator| that tosses a coin of its own to decide whether to invoke f.
Pipe_Random(r) ==
    /\ state[r] = "Running"
    /\ i[r] < Len(steps)
    /\ \E rnd \in RandomDraws(NextStep(r), cur[r]), coin \in BOOLEAN :
          Apply(r, IF coin THEN PipeOp(cur[r], NextStep(r), rnd)
                           ELSE [calls |-> <<>>, ret |-> cur[r]], rnd)

\* One application of operator| in run r.
Pipe(r) ==
    /\ state[r] = "Running"
    /\ i[r] < Len(steps)
    /\ \E rnd \in RandomDraws(NextStep(r), cur[r]) :
          Apply(r, PipeOp(cur[r], NextStep(r), rnd), rnd)

\* res value-initialised instead of initialised from the chain.
Finish_Default(r) ==
    /\ state[r] = "Running"
    /\ i[r] = Len(steps)
    /\ res' = [res EXCEPT ![r] = Success(Payload(<<>>, 0))]
    /\ state' = [state EXCEPT ![r] = "Done"]
    /\ UNCHANGED <<steps, initial, i, cur, log, drawn>>

\* auto res = <the chain>;
Finish(r) ==
    /\ state[r] = "Running"
    /\ i[r] = Len(steps)
    /\ res' = [res EXCEPT ![r] = cur[r]]
    /\ state' = [state EXCEPT ![r] = "Done"]
    /\ UNCHANGED <<steps, initial, i, cur, log, drawn>>

-----------------------------------------------------------------------------
\* Specifications

Chains == UNION {[1..n -> StepNames] : n \in 0..MaxSteps}

DemoChain == <<"Payload_Proc_1", "Payload_Proc_2", "Payload_Proc_3">>

\* res before the assignment: not yet constructed.
Unset == [has_value |-> FALSE, error |-> "unset"]

InitRuns(R) ==
    /\ steps \in Chains
    /\ initial \in InitialResults
    /\ state = [r \in R |-> "Running"]
    /\ i = [r \in R |-> 0]
    /\ cur = [r \in R |-> initial]
    /\ res = [r \in R |-> Unset]
    /\ log = [r \in R |-> <<>>]
    /\ drawn = [r \in R |-> <<>>]

Init == InitRuns({1})

InitPair == InitRuns({1, 2})

Runs == DOMAIN state

PipeStep == \E r \in Runs : Pipe(r)

FinishStep == \E r \in Runs : Finish(r)

Next ==
    \/ PipeStep
    \/ FinishStep

Spec == Init /\ [][Next]_vars

FairSpec == Spec /\ WF_vars(Next)

SpecPair == InitPair /\ [][Next]_vars

-----------------------------------------------------------------------------
\* Properties

Done(r) == state[r] = "Done"

FullString == StartString \o ProcBy1 \o ProcBy2 \o ProcBy3

\* C1: short-circuit.  If the step at index k was invoked and returned a
\* failure, no step with a greater index is ever invoked in that run, the
\* current result stays that failure, and the final result is that failure.
C1_ShortCircuit ==
    \A r \in Runs : \A k \in 1..Len(log[r]) :
        ~log[r][k].ret.has_value =>
            /\ \A m \in 1..Len(log[r]) : log[r][m].idx <= log[r][k].idx
            /\ cur[r] = log[r][k].ret
            /\ Done(r) => res[r] = log[r][k].ret

\* A finished run in which a step failed with steps still after it.
C1_Witness ==
    \E r \in Runs : \E k \in 1..Len(log[r]) :
        /\ Done(r)
        /\ ~log[r][k].ret.has_value
        /\ log[r][k].idx + 1 < Len(steps)
        /\ res[r] = log[r][k].ret

\* The manual nesting fk(...f2(f1(initial))...), each call with the random
\* outputs the step at that index consumed in run r.
RECURSIVE Fold(_, _)
Fold(r, k) ==
    IF k = 0 THEN initial ELSE Invoke(steps[k], Fold(r, k - 1), drawn[r][k - 1])

AllSucceeded(r) ==
    /\ initial.has_value
    /\ \A k \in 1..Len(log[r]) : log[r][k].ret.has_value

\* C2: success-path composition.  When the seed is a success and every
\* invoked step returned a success, a finished run has invoked every step
\* exactly once, in order, and its result is the success that the nested
\* calls fn(...f2(f1(seed))...) give; the seed {"start", 0} piped through
\* Payload_Proc_1 and Payload_Proc_3 gives {"start proc by 1, proc by 3,", 4}.
C2_SuccessComposition ==
    \A r \in Runs :
        (Done(r) /\ AllSucceeded(r)) =>
            /\ Len(log[r]) = Len(steps)
            /\ \A k \in 1..Len(log[r]) :
                  log[r][k].idx = k - 1 /\ log[r][k].f = steps[k]
            /\ res[r].has_value
            /\ res[r] = Fold(r, Len(steps))
            /\ (/\ initial = Success(Payload(<<"s","t","a","r","t">>, 0))
                /\ steps = <<"Payload_Proc_1", "Payload_Proc_3">>)
               => res[r] = Success(Payload(<<"s","t","a","r","t">> \o ProcBy1 \o ProcBy3, 4))

\* A finished run of a chain of at least two steps that all succeeded.
C2_Witness ==
    \E r \in Runs :
        /\ Done(r)
        /\ AllSucceeded(r)
        /\ Len(steps) >= 2
        /\ Len(log[r]) = Len(steps)
        /\ res[r].has_value

\* C3: initial failure passes through.  When the left-most operand is a
\* failure, no step is ever invoked, the current result stays that failure
\* and the final result is that failure.
C3_InitialFailure ==
    \A r \in Runs :
        ~initial.has_value =>
            /\ log[r] = <<>>
            /\ cur[r] = initial
            /\ Done(r) => res[r] = initial

\* A finished run of a non-empty chain whose left-most operand is a failure.
C3_Witness ==
    \E r \in Runs :
        /\ Done(r)
        /\ ~initial.has_value
        /\ Len(steps) >= 1
        /\ i[r] = Len(steps)
        /\ res[r] = initial

\* C4: identity on the empty chain.  With no step, nothing is invoked and
\* the final result is the initial result, a success or a failure alike.
C4_EmptyChain ==
    \A r \in Runs :
        Len(steps) = 0 =>
            /\ log[r] = <<>>
            /\ i[r] = 0
            /\ cur[r] = initial
            /\ Done(r) => res[r] = initial

\* A finished run of the empty chain.
C4_Witness ==
    \E r \in Runs :
        /\ Len(steps) = 0
        /\ Done(r)
        /\ initial.has_value
        /\ res[r] = initial

\* The errors a run has seen: the initial one and those its steps returned.
ErrorsSeen(r) ==
    (IF initial.has_value THEN {} ELSE {initial.error})
    \cup {log[r][k].ret.error : k \in {m \in 1..Len(log[r]) : ~log[r][m].ret.has_value}}

\* C5: pass-through of errors.  The current result is always the initial
\* result or what the last invoked step returned, the final result is that
\* current result, a final failure carries an error the run has seen, and a
\* current failure is never replaced by anything else.
C5_PassThrough ==
    /\ [](\A r \in Runs :
            /\ cur[r] = IF log[r] = <<>> THEN initial ELSE log[r][Len(log[r])].ret
            /\ Done(r) => res[r] = cur[r]
            /\ (Done(r) /\ ~res[r].has_value) => res[r].error \in ErrorsSeen(r))
    /\ [][\A r \in Runs : ~cur[r].has_value => cur'[r] = cur[r]]_vars

\* A finished run whose failure came from a step and went through at least
\* one more operator|.
C5_Witness ==
    \E r \in Runs :
        /\ Done(r)
        /\ initial.has_value
        /\ ~res[r].has_value
        /\ Len(log[r]) >= 1
        /\ Len(log[r]) < Len(steps)
        /\ res[r] = log[r][Len(log[r])].ret

\* C6: ordering.  The k-th invocation of a run is that of the k-th step of
\* the chain, so the invoked steps are a prefix of the chain, in order, each
\* once; an operator| is applied without invoking its step only when the
\* current result is a failure.
C6_Ordering ==
    \A r \in Runs :
        /\ \A k \in 1..Len(log[r]) :
              log[r][k].idx = k - 1 /\ log[r][k].f = steps[k]
        /\ Len(log[r]) <= i[r]
        /\ Len(log[r]) < i[r] => ~cur[r].has_value

\* A finished run that invoked three different steps.
C6_Witness ==
    \E r \in Runs :
        /\ Done(r)
        /\ Len(log[r]) = 3
        /\ Cardinality({log[r][k].f : k \in 1..3}) = 3

\* C7: termination.  Every run reaches Done, having invoked at most as many
\* steps as the chain has; every step of a running evaluation advances it to
\* the next index or to Done, and nothing of a run changes once it is Done.
C7_Termination ==
    /\ <>(\A r \in Runs : Done(r))
    /\ [](\A r \in Runs : Len(log[r]) <= Len(steps) /\ i[r] <= Len(steps))
    /\ [][\A r \in Runs :
            state[r] = "Running" => (i'[r] = i[r] + 1 \/ state'[r] = "Done")]_vars
    /\ [][\A r \in Runs :
            Done(r) => /\ state'[r] = "Done"
                       /\ res'[r] = res[r]
                       /\ cur'[r] = cur[r]
                       /\ log'[r] = log[r]
                       /\ i'[r] = i[r]]_vars

\* A finished run that invoked every step of a chain of at least two.
C7_Witness ==
    \E r \in Runs :
        /\ Done(r)
        /\ Len(steps) >= 2
        /\ i[r] = Len(steps)
        /\ Len(log[r]) = Len(steps)

\* The steps behaved alike in runs r1 and r2: whenever both invoked the
\* step at some index with the same argument, it returned the same result.
SameOutcomes(r1, r2) ==
    \A k1 \in 1..Len(log[r1]), k2 \in 1..Len(log[r2]) :
        (log[r1][k1].idx = log[r2][k2].idx /\ log[r1][k1].arg = log[r2][k2].arg)
            => log[r1][k1].ret = log[r2][k2].ret

\* C8: determinism.  Two runs of the same chain on the same initial result,
\* in which every step returned the same result for the same payload, have
\* invoked the same steps with the same results whenever they have applied
\* the same number of operator|, and end in the same final result.
C8_Determinism ==
    \A r1, r2 \in Runs :
        SameOutcomes(r1, r2) =>
            /\ i[r1] = i[r2] => (cur[r1] = cur[r2] /\ log[r1] = log[r2])
            /\ (Done(r1) /\ Done(r2)) => (res[r1] = res[r2] /\ log[r1] = log[r2])

\* Two finished runs in which Payload_Proc_2 was invoked with the same
\* payload and failed with the same error.
C8_Witness ==
    \E r1, r2 \in Runs :
        /\ r1 # r2
        /\ Done(r1) /\ Done(r2)
        /\ SameOutcomes(r1, r2)
        /\ \E k \in 1..Len(log[r1]) :
              log[r1][k].f = "Payload_Proc_2" /\ ~log[r1][k].ret.has_value
        /\ res[r1] = res[r2]

\* Without that hypothesis two runs need not agree: Payload_Proc_2 draws
\* afresh in each.  (Violated under SpecPair.)
C8_Unconditional ==
    \A r1, r2 \in Runs : (Done(r1) /\ Done(r2)) => res[r1] = res[r2]

\* C9: payload hand-off.  Every step is invoked with a success, whose
\* payload is the one held by the result of the previous invocation, or by
\* the initial result for the first; so no step is invoked with a failure.
C9_Handoff ==
    \A r \in Runs : \A k \in 1..Len(log[r]) :
        /\ log[r][k].arg.has_value
        /\ IF k = 1
           THEN initial.has_value /\ log[r][k].arg = Success(initial.value)
           ELSE /\ log[r][k - 1].ret.has_value
                /\ log[r][k].arg = Success(log[r][k - 1].ret.value)

\* A run whose second step received the payload the first one returned.
C9_Witness ==
    \E r \in Runs :
        /\ Len(log[r]) >= 2
        /\ log[r][2].arg = log[r][1].ret
        /\ log[r][2].arg.value # initial.value

\* C10: the demonstration chain.  Payload{"Start string ", 42} piped through
\* Payload_Proc_1, Payload_Proc_2, Payload_Proc_3 invokes Payload_Proc_1 and
\* then Payload_Proc_2, and ends either in the success with fVal 47 and the
\* three suffixes appended, or in kOverflow or kUnderflow with
\* Payload_Proc_3 not invoked.
C10_Demo ==
    (steps = DemoChain /\ initial = Success(DemoSeed)) =>
        \A r \in Runs :
            /\ i[r] >= 1 => (Len(log[r]) >= 1 /\ log[r][1].f = "Payload_Proc_1")
            /\ i[r] >= 2 => (Len(log[r]) >= 2 /\ log[r][2].f = "Payload_Proc_2")
            /\ Done(r) =>
                 \/ /\ res[r] = Success(Payload(FullString, 47))
                    /\ Len(log[r]) = 3
                 \/ /\ ~res[r].has_value
                    /\ res[r].error \in {"kOverflow", "kUnderflow"}
                    /\ Len(log[r]) = 2
                    /\ \A k \in 1..Len(log[r]) : log[r][k].f # "Payload_Proc_3"

\* The demonstration chain finished in success.
C10_Witness ==
    \E r \in Runs :
        /\ steps = DemoChain
        /\ initial = Success(DemoSeed)
        /\ Done(r)
        /\ res[r] = Success(Payload(FullString, 47))

=============================================================================
